---- MODULE Spec2Model ----
(***************************************************************************)
(* Forge project lifecycle service (server/services/project_service.py),   *)
(* with the path resolver (server/utils/paths.py) and the ProjectMeta      *)
(* schema (server/models/project.py), over an abstract filesystem.         *)
(*                                                                         *)
(* An identifier is a sequence of one-character strings; a name is a run   *)
(* of one character, kept as the character and its count.  A timestamp is  *)
(* a natural number; an Optional value is <<>> (None) or <<v>>.  A file is *)
(* <<>> (absent) or <<content>>.                                           *)
(***************************************************************************)
EXTENDS Integers, Sequences, FiniteSets

VARIABLES rootExists, fs, clock, last, pc, loc

vars == <<rootExists, fs, clock, last, pc, loc>>

\* ------------------------------------------------------------------ bounds

\* Largest reading of datetime.utcnow() the model explores.
MaxClock == 1

\* ------------------------------------------------------- program constants

MinNameLen == 1
MaxNameLen == 100
MaxLlmEditSize == 500

PROJECT_DIRS == <<"docs", "chat", "meta", "history">>

\* ------------------------------------------------------------------ inputs

\* The string of n copies of the character c, and len() of such a string.
Rep(c, n) == [char |-> c, count |-> n]
StrLen(s) == s.count

\* One character of each class the identifier checks tell apart: an ASCII
\* lowercase letter, an ASCII digit, the hyphen, an ASCII uppercase letter,
\* the underscore, the space, and a non-ASCII lowercase letter.
LowerAscii == {"a"}
DigitAscii == {"7"}
UpperAscii == {"A"}
NonAsciiLower == {"e'"}

IdInputs ==
    { <<>>, <<"a">>, <<"a", "-", "7">>, <<"-">>, <<"A">>, <<"a", "_">>,
      <<"a", " ">>, <<"e'">> }

NameInputs ==
    { Rep("x", MinNameLen - 1), Rep("x", MinNameLen), Rep("x", MaxNameLen),
      Rep("x", MaxNameLen + 1) }

DescInputs == {"", "D"}

Procs == {1, 2}

\* The arguments of the interleaved create calls.
RaceIdInputs == { <<"a">>, <<"A">> }
RaceNameInputs == { Rep("x", MinNameLen), Rep("x", MaxNameLen), Rep("x", MaxNameLen + 1) }
RaceDescInputs == {"D"}

\* ------------------------------------------------------------ str methods

\* str.isalnum() on one character: letters and digits of any script.
CharIsAlnum(c) == c \in LowerAscii \cup DigitAscii \cup UpperAscii \cup NonAsciiLower

\* str.isalnum(): non-empty and every character alphanumeric.
isalnum(s) == Len(s) > 0 /\ \A i \in 1..Len(s) : CharIsAlnum(s[i])

\* str.lower()
CharLower(c) == IF c \in UpperAscii THEN "a" ELSE c
lower(s) == [i \in 1..Len(s) |-> CharLower(s[i])]

\* str.replace("-", "")
IsNotHyphen(c) == c # "-"
replace_hyphens(s) == SelectSeq(s, IsNotHyphen)

\* ------------------------------------------------------------ ProjectMeta

\* Field(pattern=r"^[a-z0-9-]+$")
IdPatternMatches(s) ==
    Len(s) > 0 /\ \A i \in 1..Len(s) : s[i] \in LowerAscii \cup DigitAscii \cup {"-"}

\* Field(min_length=1, max_length=100)
NameLengthOk(s) == StrLen(s) >= MinNameLen /\ StrLen(s) <= MaxNameLen

ProjectRules ==
    [allow_cross_project_access |-> FALSE, llm_edit_scope |-> "markdown_only",
     max_llm_edit_size |-> MaxLlmEditSize]

StatusValues == {"active", "paused", "archived"}
\* ProjectStatus(value) and ProjectStatus.value
StatusMember(v) ==
    IF v = "active" THEN "ACTIVE" ELSE IF v = "paused" THEN "PAUSED" ELSE "ARCHIVED"
StatusValue(m) ==
    IF m = "ACTIVE" THEN "active" ELSE IF m = "PAUSED" THEN "paused" ELSE "archived"

\* datetime.isoformat() and the parse of an ISO string back to a datetime.
IsoFormat(t) == <<"iso", t>>
IsIso(x) == Len(x) = 2 /\ x[1] = "iso"
FromIso(x) == x[2]
YamlNull == <<"null">>

\* ProjectMeta(id=..., name=..., description=..., created_at=...): the other
\* fields take their defaults.  <<>> when validation raises.
ProjectMetaNew(id, name, description, now) ==
    IF IdPatternMatches(id) /\ NameLengthOk(name)
    THEN << [id |-> id, name |-> name, created_at |-> now, last_opened_at |-> <<>>,
             description |-> description, status |-> "ACTIVE", rules |-> ProjectRules] >>
    ELSE <<>>

\* meta.model_dump(mode="json")
model_dump(meta) ==
    [id |-> meta.id, name |-> meta.name, created_at |-> IsoFormat(meta.created_at),
     last_opened_at |-> IF meta.last_opened_at = <<>> THEN YamlNull
                        ELSE IsoFormat(meta.last_opened_at[1]),
     description |-> meta.description, status |-> StatusValue(meta.status),
     rules |-> meta.rules]

\* ProjectMeta(**data) on the mapping yaml.safe_load returns.  <<>> when
\* validation raises.
ProjectMetaLoad(data) ==
    IF /\ IdPatternMatches(data.id)
       /\ NameLengthOk(data.name)
       /\ IsIso(data.created_at)
       /\ (data.last_opened_at = YamlNull \/ IsIso(data.last_opened_at))
       /\ data.status \in StatusValues
    THEN << [id |-> data.id, name |-> data.name, created_at |-> FromIso(data.created_at),
             last_opened_at |-> IF data.last_opened_at = YamlNull THEN <<>>
                                ELSE <<FromIso(data.last_opened_at)>>,
             description |-> data.description, status |-> StatusMember(data.status),
             rules |-> data.rules] >>
    ELSE <<>>

\* ------------------------------------------------------------- filesystem

EmptyProjectDir == [dirs |-> {}, meta |-> <<>>, summary |-> <<>>, chat |-> <<>>, index |-> <<>>]

\* Mutant of get_project_path: the hyphens dropped from the directory name.
get_project_path_stripped(project_id) ==
    IF project_id = <<>> THEN <<>> ELSE <<replace_hyphens(project_id)>>

\* PROJECTS_ROOT / project_id, relative to the root: joining "" gives the
\* root itself.
get_project_path(project_id) == IF project_id = <<>> THEN <<>> ELSE <<project_id>>

\* Path.is_dir()
is_dir(f, root, path) == IF path = <<>> THEN root ELSE path[1] \in DOMAIN f

\* Mutants of project_exists: Path.is_file() in place of is_dir(), and the
\* projects root tested in place of the project's path.
project_exists_is_file(f, root, project_id) == FALSE
project_exists_root(f, root, project_id) == is_dir(f, root, <<>>)

project_exists(f, root, project_id) == is_dir(f, root, get_project_path(project_id))

\* The content of <project>/<file>, <<>> when there is no such file.  Under
\* the root itself (project_id = "") the path names a file of a project
\* called "meta", "chat" or "docs", which no identifier of IdInputs is.
ReadFile(f, project_id, file) ==
    LET path == get_project_path(project_id)
    IN  IF path # <<>> /\ path[1] \in DOMAIN f THEN f[path[1]][file] ELSE <<>>

\* f with directory d mapped to v, d added to the root's listing if new.
Put(f, d, v) == [x \in DOMAIN f \cup {d} |-> IF x = d THEN v ELSE f[x]]

\* The mkdir calls of create_project: (project_path / dir_name).mkdir(
\* parents=True, exist_ok=True) for PROJECT_DIRS, then history/docs and
\* history/meta with exist_ok=True.
MkDirs(f, project_id) ==
    LET d == get_project_path(project_id)[1]
        old == IF d \in DOMAIN f THEN f[d] ELSE EmptyProjectDir
    IN  Put(f, d,
            [old EXCEPT !.dirs = @ \cup {PROJECT_DIRS[i] : i \in 1..Len(PROJECT_DIRS)}
                                   \cup {"history/docs", "history/meta"}])

\* Mutant of WriteFile: open(path, "x") semantics that keep a file already
\* there.
WriteFile_KeepsExisting(f, project_id, file, content) ==
    LET d == get_project_path(project_id)[1]
    IN  IF f[d][file] # <<>> THEN f ELSE Put(f, d, [f[d] EXCEPT ![file] = <<content>>])

\* open(path, "w") and a write: the file is created or replaced.
WriteFile(f, project_id, file, content) ==
    LET d == get_project_path(project_id)[1]
    IN  Put(f, d, [f[d] EXCEPT ![file] = <<content>>])

SummaryHeaders ==
    << "# Project Summary", "## Intent", "## Current Focus", "## Constraints",
       "## Open Questions", "## Last Known Good State", "## Notes to Future Me" >>

\* The summary.md template: description or the placeholder under Intent.
SummaryTemplate(description) ==
    [headers |-> SummaryHeaders,
     intent |-> IF description = "" THEN "[Describe what this project is trying to achieve]"
                ELSE description]

\* Conversation(conversation_id="main", created_at=now, messages=[]).model_dump(mode="json")
ConversationDump(now) ==
    [conversation_id |-> "main", created_at |-> IsoFormat(now), messages |-> <<>>]

\* f"# {name}\n\n{description}\n"
IndexContent(name, description) == [heading |-> name, body |-> description]

\* -------------------------------------------------------------- operations

Result(outcome, value, f, root, now) ==
    [outcome |-> outcome, value |-> value, fs |-> f, root |-> root, clock |-> now]

\* The identifier checks of create_project.
IdIsValid(project_id) ==
    /\ ~(project_id = <<>> \/ ~isalnum(replace_hyphens(project_id)))
    /\ ~(project_id # lower(project_id))

\* create_project(project_id, name, description) in filesystem f, the clock
\* standing at now; t1 and t2 are the two readings of datetime.utcnow().
create_project(f, root, now, project_id, name, description, t1, t2) ==
    IF ~IdIsValid(project_id)
    THEN Result("ValueError", <<>>, f, root, now)
    ELSE IF project_exists(f, root, project_id)
    THEN Result("ProjectExistsError", <<>>, f, root, now)
    ELSE LET f1 == MkDirs(f, project_id)
             meta == ProjectMetaNew(project_id, name, description, t1)
         IN  IF meta = <<>>
             THEN Result("ValidationError", <<>>, f1, TRUE, t1)
             ELSE LET f2 == WriteFile(f1, project_id, "meta", model_dump(meta[1]))
                      f3 == WriteFile(f2, project_id, "summary", SummaryTemplate(description))
                      f4 == WriteFile(f3, project_id, "chat", ConversationDump(t2))
                      f5 == WriteFile(f4, project_id, "index", IndexContent(name, description))
                  IN  Result("ok", meta, f5, TRUE, t2)

\* How many times create_project calls datetime.utcnow(): not at all when it
\* raises before the metadata is built, once when ProjectMeta(...) raises,
\* else for created_at and for the conversation.
UtcnowCalls(f, root, project_id, name) ==
    IF ~IdIsValid(project_id) \/ project_exists(f, root, project_id) THEN 0
    ELSE IF ProjectMetaNew(project_id, name, "", 0) = <<>> THEN 1
    ELSE 2

\* The readings <<t1, t2>> a create_project call made at time now can get:
\* the clock does not go back, and a reading the call never takes stays at
\* the one before it.
CreateReadings(f, root, now, project_id, name) ==
    LET n == UtcnowCalls(f, root, project_id, name)
    IN  { ts \in (now..MaxClock) \X (now..MaxClock) :
            /\ ts[1] <= ts[2]
            /\ n = 0 => ts[1] = now
            /\ n < 2 => ts[2] = ts[1] }

\* get_project(project_id)
get_project(f, root, now, project_id) ==
    IF ~project_exists(f, root, project_id)
    THEN Result("ProjectNotFoundError", <<>>, f, root, now)
    ELSE LET file == ReadFile(f, project_id, "meta")
         IN  IF file = <<>>
             THEN Result("FileNotFoundError", <<>>, f, root, now)
             ELSE LET meta == ProjectMetaLoad(file[1])
                  IN  IF meta = <<>>
                      THEN Result("ValidationError", <<>>, f, root, now)
                      ELSE Result("ok", meta, f, root, now)

\* Mutants of Touch: created_at stamped too, and the stamp forgotten.
Touch_ResetsCreated(meta, t) == [meta EXCEPT !.last_opened_at = <<t>>, !.created_at = t]
Touch_Forgets(meta, t) == meta

\* meta.last_opened_at = datetime.utcnow()
Touch(meta, t) == [meta EXCEPT !.last_opened_at = <<t>>]

\* open_project(project_id); t is the reading of datetime.utcnow().
open_project(f, root, now, project_id, t) ==
    IF ~project_exists(f, root, project_id)
    THEN Result("ProjectNotFoundError", <<>>, f, root, now)
    ELSE LET file == ReadFile(f, project_id, "meta")
         IN  IF file = <<>>
             THEN Result("FileNotFoundError", <<>>, f, root, now)
             ELSE LET loaded == ProjectMetaLoad(file[1])
                  IN  IF loaded = <<>>
                      THEN Result("ValidationError", <<>>, f, root, now)
                      ELSE LET meta == Touch(loaded[1], t)
                           IN  Result("ok", <<meta>>,
                                      WriteFile(f, project_id, "meta", model_dump(meta)),
                                      root, t)

\* key=lambda p: p.last_opened_at or p.created_at
SortKey(p) == IF p.last_opened_at # <<>> THEN p.last_opened_at[1] ELSE p.created_at

\* Mutant of GoesBefore: reverse=True left out.
GoesBefore_Ascending(p, q) == SortKey(p) < SortKey(q)

\* Whether p goes before q in sorted(..., reverse=True).
GoesBefore(p, q) == SortKey(p) > SortKey(q)

\* s, sorted already, with p put in: after every record that does not go
\* after it (the sort is stable).
RECURSIVE InsertSorted(_, _)
InsertSorted(s, p) ==
    IF s = <<>> THEN <<p>>
    ELSE IF GoesBefore(p, Head(s)) THEN <<p>> \o s
    ELSE <<Head(s)>> \o InsertSorted(Tail(s), p)

\* sorted(projects, key=..., reverse=True)
RECURSIVE sorted(_)
sorted(projects) ==
    IF projects = <<>> THEN <<>>
    ELSE InsertSorted(sorted(SubSeq(projects, 1, Len(projects) - 1)),
                      projects[Len(projects)])

\* The loop body of list_projects for one directory entry: the record it
\* appends, <<>> when the entry is skipped.
LoadForList(f, d) ==
    LET file == ReadFile(f, d, "meta")
    IN  IF file = <<>> THEN <<>> ELSE ProjectMetaLoad(file[1])

RECURSIVE Collect(_, _)
Collect(f, order) ==
    IF order = <<>> THEN <<>> ELSE LoadForList(f, Head(order)) \o Collect(f, Tail(order))

\* The orders PROJECTS_ROOT.iterdir() may yield the entries in.
IterDirOrders(f) ==
    LET n == Cardinality(DOMAIN f)
    IN  { s \in [1..n -> DOMAIN f] : \A i, j \in 1..n : i # j => s[i] # s[j] }

\* list_projects(), iterdir() yielding the entries in the given order.
list_projects(f, root, now, order) ==
    IF ~root
    THEN Result("ok", <<>>, f, root, now)
    ELSE Result("ok", sorted(Collect(f, order)), f, root, now)

\* ---------------------------------------------------- the sequential calls

\* The call made last and how it ended.
NoCall == [op |-> "none", outcome |-> "none"]

Call(op, r) == [op |-> op, outcome |-> r.outcome]

Idle == [p \in Procs |-> "idle"]
NoLocals == [p \in Procs |-> [id |-> <<>>, name |-> <<>>, description |-> "",
                              meta |-> <<>>, outcome |-> "none"]]

Init ==
    /\ rootExists \in BOOLEAN
    /\ fs = <<>>
    /\ clock = 0
    /\ last = NoCall
    /\ pc = Idle
    /\ loc = NoLocals

Apply(op, r) ==
    /\ fs' = r.fs
    /\ rootExists' = r.root
    /\ clock' = r.clock
    /\ last' = Call(op, r)
    /\ UNCHANGED <<pc, loc>>

Create ==
    \E id \in IdInputs, name \in NameInputs, description \in DescInputs :
        \E ts \in CreateReadings(fs, rootExists, clock, id, name) :
            Apply("create",
                  create_project(fs, rootExists, clock, id, name, description, ts[1], ts[2]))

Get ==
    \E id \in IdInputs :
        Apply("get", get_project(fs, rootExists, clock, id))

Open ==
    \E id \in IdInputs :
        \E t \in clock..MaxClock :
            Apply("open", open_project(fs, rootExists, clock, id, t))

List ==
    \E order \in IterDirOrders(fs) :
        Apply("list", list_projects(fs, rootExists, clock, order))

Next == Create \/ Get \/ Open \/ List

Spec == Init /\ [][Next]_vars

\* ------------------------------------- create_project, statement by statement

\* Two callers run create_project with no lock between them; pc[p] is the
\* statement caller p executes next and loc[p] holds its arguments and locals.

Goto(p, label) == pc' = [pc EXCEPT ![p] = label]

\* The call: the arguments are bound.
RaceCall(p) ==
    /\ pc[p] \in {"idle", "done"}
    /\ \E id \in RaceIdInputs, name \in RaceNameInputs, description \in RaceDescInputs :
           loc' = [loc EXCEPT ![p] = [id |-> id, name |-> name, description |-> description,
                                      meta |-> <<>>, outcome |-> "none"]]
    /\ Goto(p, "check")
    /\ UNCHANGED <<rootExists, fs, clock, last>>

\* The identifier checks and the project_exists check.
RaceCheck(p) ==
    /\ pc[p] = "check"
    /\ IF ~IdIsValid(loc[p].id)
       THEN loc' = [loc EXCEPT ![p].outcome = "ValueError"] /\ Goto(p, "done")
       ELSE IF project_exists(fs, rootExists, loc[p].id)
       THEN loc' = [loc EXCEPT ![p].outcome = "ProjectExistsError"] /\ Goto(p, "done")
       ELSE loc' = loc /\ Goto(p, "mkdir")
    /\ UNCHANGED <<rootExists, fs, clock, last>>

\* The mkdir calls.
RaceMkdir(p) ==
    /\ pc[p] = "mkdir"
    /\ fs' = MkDirs(fs, loc[p].id)
    /\ rootExists' = TRUE
    /\ Goto(p, "construct")
    /\ UNCHANGED <<clock, last, loc>>

\* meta = ProjectMeta(..., created_at=datetime.utcnow())
RaceConstruct(p) ==
    /\ pc[p] = "construct"
    /\ \E t \in clock..MaxClock :
           LET meta == ProjectMetaNew(loc[p].id, loc[p].name, loc[p].description, t)
           IN  /\ clock' = t
               /\ IF meta = <<>>
                  THEN loc' = [loc EXCEPT ![p].outcome = "ValidationError"] /\ Goto(p, "done")
                  ELSE loc' = [loc EXCEPT ![p].meta = meta] /\ Goto(p, "write_meta")
    /\ UNCHANGED <<rootExists, fs, last>>

\* The write of meta/project.yaml.
RaceWriteMeta(p) ==
    /\ pc[p] = "write_meta"
    /\ fs' = WriteFile(fs, loc[p].id, "meta", model_dump(loc[p].meta[1]))
    /\ Goto(p, "write_summary")
    /\ UNCHANGED <<rootExists, clock, last, loc>>

\* The write of meta/summary.md.
RaceWriteSummary(p) ==
    /\ pc[p] = "write_summary"
    /\ fs' = WriteFile(fs, loc[p].id, "summary", SummaryTemplate(loc[p].description))
    /\ Goto(p, "write_chat")
    /\ UNCHANGED <<rootExists, clock, last, loc>>

\* The write of chat/main.json, its created_at a new reading of the clock.
RaceWriteChat(p) ==
    /\ pc[p] = "write_chat"
    /\ \E t \in clock..MaxClock :
           /\ clock' = t
           /\ fs' = WriteFile(fs, loc[p].id, "chat", ConversationDump(t))
    /\ Goto(p, "write_index")
    /\ UNCHANGED <<rootExists, last, loc>>

\* The write of docs/index.md, and the return.
RaceWriteIndex(p) ==
    /\ pc[p] = "write_index"
    /\ fs' = WriteFile(fs, loc[p].id, "index", IndexContent(loc[p].name, loc[p].description))
    /\ loc' = [loc EXCEPT ![p].outcome = "ok"]
    /\ Goto(p, "done")
    /\ UNCHANGED <<rootExists, clock, last>>

RaceNext ==
    \E p \in Procs :
        \/ RaceCall(p)
        \/ RaceCheck(p)
        \/ RaceMkdir(p)
        \/ RaceConstruct(p)
        \/ RaceWriteMeta(p)
        \/ RaceWriteSummary(p)
        \/ RaceWriteChat(p)
        \/ RaceWriteIndex(p)

SpecRace == Init /\ [][RaceNext]_vars

\* ------------------------------------------------------------------ claims

\* The readings of datetime.utcnow() a call made now can get.
Readings == clock..MaxClock

\* The files create_project writes into a project directory.
ProjectFiles == {"meta", "summary", "chat", "index"}

\* The directories under the projects root.
ProjectDirs == DOMAIN fs

\* The record get_project returns for project_id in filesystem f.
Loaded(f, project_id) == get_project(f, TRUE, clock, project_id).value[1]

\* The directories whose metadata file exists, parses and validates.
Loadable(f) ==
    { d \in DOMAIN f : f[d].meta # <<>> /\ ProjectMetaLoad(f[d].meta[1]) # <<>> }

\* C1: for every identifier matching ^[a-z0-9-]+$ with no project directory
\* yet and every name of length 1 to 100, create succeeds and a get right
\* after it returns the inputs, status active and no last_opened_at.
C1_CreateThenGet ==
    \A id \in IdInputs, name \in NameInputs, description \in DescInputs :
        \A ts \in CreateReadings(fs, rootExists, clock, id, name) :
            LET t1 == ts[1]
                t2 == ts[2]
            IN
                (/\ IdPatternMatches(id)
                 /\ id \notin ProjectDirs
                 /\ StrLen(name) >= 1 /\ StrLen(name) <= 100)
                =>
                LET r == create_project(fs, rootExists, clock, id, name, description, t1, t2)
                    g == get_project(r.fs, r.root, r.clock, id)
                IN  /\ r.outcome = "ok"
                    /\ g.outcome = "ok"
                    /\ g.value[1].id = id
                    /\ g.value[1].name = name
                    /\ g.value[1].description = description
                    /\ g.value[1].status = "ACTIVE"
                    /\ g.value[1].last_opened_at = <<>>

\* The ways a create call can report an invalid identifier: the ValueError
\* of the identifier checks, or the ValueError subclass the schema raises.
InvalidIdentifierErrors == {"ValueError", "ValidationError"}

\* An identifier with a character other than a-z, 0-9 and the hyphen.
HasForeignChar(id) ==
    \E i \in 1..Len(id) : id[i] \notin LowerAscii \cup DigitAscii \cup {"-"}

\* C2: create fails with InvalidIdentifier for every identifier that is
\* empty or holds a character other than a-z, 0-9 and the hyphen.
C2_InvalidIdRejected ==
    \A id \in IdInputs, name \in NameInputs, description \in DescInputs :
        \A ts \in CreateReadings(fs, rootExists, clock, id, name) :
            LET t1 == ts[1]
                t2 == ts[2]
            IN
                (id = <<>> \/ HasForeignChar(id))
                =>
                create_project(fs, rootExists, clock, id, name, description, t1, t2).outcome
                    \in InvalidIdentifierErrors

\* C3: create on an identifier whose project directory exists fails with
\* AlreadyExists and leaves every file and directory as it was, whatever
\* name and description it is given.
C3_DuplicateRejected ==
    \A id \in IdInputs, name \in NameInputs, description \in DescInputs :
        \A ts \in CreateReadings(fs, rootExists, clock, id, name) :
            LET t1 == ts[1]
                t2 == ts[2]
            IN
                id \in ProjectDirs
                =>
                LET r == create_project(fs, rootExists, clock, id, name, description, t1, t2)
                IN  /\ r.outcome = "ProjectExistsError"
                    /\ r.fs = fs
                    /\ r.root = rootExists

\* A create has just been rejected as a duplicate, and a complete project
\* is on disk.
C3_Witness ==
    /\ last.op = "create"
    /\ last.outcome = "ProjectExistsError"
    /\ \E d \in ProjectDirs : \A file \in ProjectFiles : fs[d][file] # <<>>

\* C10: every project directory that exists holds meta/project.yaml,
\* meta/summary.md, chat/main.json and docs/index.md, so get succeeds on it;
\* a create rejected for its identifier or name leaves no directory behind.
C10_DirectoriesComplete ==
    \A d \in ProjectDirs :
        /\ \A file \in ProjectFiles : fs[d][file] # <<>>
        /\ get_project(fs, rootExists, clock, d).outcome = "ok"

\* The fields of a metadata record, or of its file, other than last_opened_at.
OtherFields(m) ==
    [id |-> m.id, name |-> m.name, created_at |-> m.created_at,
     description |-> m.description, status |-> m.status, rules |-> m.rules]

\* C4: a successful open changes the last_opened_at of the project's
\* metadata and nothing else: the other fields read back as before, the
\* project's other files and the other projects are as before, and the
\* metadata file re-serializes to itself, so this holds open after open.
C4_OpenFrame ==
    /\ \A d \in Loadable(fs) : model_dump(Loaded(fs, d)) = fs[d].meta[1]
    /\ \A id \in IdInputs :
           \A t \in Readings :
               LET r == open_project(fs, rootExists, clock, id, t)
               IN  r.outcome = "ok"
                   =>
                   /\ id \in Loadable(fs) /\ id \in Loadable(r.fs)
                   /\ OtherFields(Loaded(r.fs, id)) = OtherFields(Loaded(fs, id))
                   /\ OtherFields(r.fs[id].meta[1]) = OtherFields(fs[id].meta[1])
                   /\ r.value[1] = Loaded(r.fs, id)
                   /\ \A file \in {"dirs", "summary", "chat", "index"} :
                          r.fs[id][file] = fs[id][file]
                   /\ DOMAIN r.fs = DOMAIN fs
                   /\ \A other \in DOMAIN fs \ {id} : r.fs[other] = fs[other]
                   /\ r.root = rootExists

\* A project created with a description at an earlier time has just been
\* opened, beside a project never opened.
C4_Witness ==
    /\ last.op = "open"
    /\ last.outcome = "ok"
    /\ \E d, e \in Loadable(fs) :
           /\ Loaded(fs, d).last_opened_at # <<>>
           /\ Loaded(fs, d).last_opened_at[1] > Loaded(fs, d).created_at
           /\ Loaded(fs, d).description = "D"
           /\ Loaded(fs, e).last_opened_at = <<>>

\* The last_opened_at read from the metadata file of directory d of f.
LastOpened(f, d) == ProjectMetaLoad(f[d].meta[1])[1].last_opened_at

\* C5: last_opened_at is absent after create, present after a successful
\* open, never earlier than it was before that open, and no call other than
\* an open of the project changes it (the call leaves the metadata file of
\* every other project as it was).
C5_LastOpenedAt ==
    /\ \A id \in IdInputs, name \in NameInputs, description \in DescInputs :
           \A ts \in CreateReadings(fs, rootExists, clock, id, name) :
               LET t1 == ts[1]
                   t2 == ts[2]
               IN
                   LET r == create_project(fs, rootExists, clock, id, name, description,
                                           t1, t2)
                   IN  /\ r.outcome = "ok" =>
                              id \in Loadable(r.fs) /\ LastOpened(r.fs, id) = <<>>
                       /\ \A d \in ProjectDirs : r.fs[d].meta = fs[d].meta
    /\ \A id \in IdInputs :
           /\ get_project(fs, rootExists, clock, id).fs = fs
           /\ \A t \in Readings :
                  LET r == open_project(fs, rootExists, clock, id, t)
                  IN  /\ r.outcome = "ok" =>
                          /\ id \in Loadable(fs) /\ id \in Loadable(r.fs)
                          /\ LastOpened(r.fs, id) # <<>>
                          /\ LastOpened(fs, id) # <<>> =>
                                 LastOpened(r.fs, id)[1] >= LastOpened(fs, id)[1]
                      /\ \A d \in ProjectDirs \ {id} : r.fs[d].meta = fs[d].meta
    /\ \A order \in IterDirOrders(fs) :
           list_projects(fs, rootExists, clock, order).fs = fs

\* A project has just been opened at the latest time, later than it was
\* created, beside a project created and not yet opened.
C5_Witness ==
    /\ last.op = "open"
    /\ last.outcome = "ok"
    /\ \E d, e \in Loadable(fs) :
           /\ LastOpened(fs, d) = <<MaxClock>>
           /\ Loaded(fs, d).created_at < MaxClock
           /\ LastOpened(fs, e) = <<>>

KeyOf(m) == IF m.last_opened_at = <<>> THEN m.created_at ELSE m.last_opened_at[1]

C8_UniqueIds ==
    /\ \A d \in ProjectDirs : fs[d].meta # <<>> => fs[d].meta[1].id = d
    /\ \A d \in Loadable(fs) : Loaded(fs, d).id = d
    /\ \A order \in IterDirOrders(fs) :
           LET v == list_projects(fs, rootExists, clock, order).value
           IN  \A i, j \in 1..Len(v) : i # j => v[i].id # v[j].id

\* Two projects, one with a hyphen in its identifier, are on disk and have
\* been listed.
C8_Witness ==
    /\ last.op = "list"
    /\ Cardinality(Loadable(fs)) >= 2
    /\ \E d \in Loadable(fs) : \E i \in 1..Len(d) : d[i] = "-"

\* Caller p is inside create_project, past the existence check.
InFlight(p) ==
    pc[p] \in {"mkdir", "construct", "write_meta", "write_summary", "write_chat",
               "write_index"}

\* Caller p has returned from create_project with the project written.
Returned(p) == pc[p] = "done" /\ loc[p].outcome = "ok"

\* What caller p does to the disk in one step of a create.
C9_Step(p) ==
    /\ InFlight(p) => loc'[p].outcome # "ProjectExistsError"
    /\ (pc[p] = "mkdir" /\ pc'[p] # "mkdir") => pc'[p] = "construct"
    /\ (pc[p] = "write_meta" /\ pc'[p] # "write_meta") =>
           ReadFile(fs', loc[p].id, "meta") = <<model_dump(loc[p].meta[1])>>
    /\ (pc[p] = "write_summary" /\ pc'[p] # "write_summary") =>
           ReadFile(fs', loc[p].id, "summary") = <<SummaryTemplate(loc[p].description)>>
    /\ (pc[p] = "write_chat" /\ pc'[p] # "write_chat") =>
           ReadFile(fs', loc[p].id, "chat") = <<ConversationDump(clock')>>
    /\ (pc[p] = "write_index" /\ pc'[p] # "write_index") =>
           /\ ReadFile(fs', loc[p].id, "index")
                  = <<IndexContent(loc[p].name, loc[p].description)>>
           /\ Returned(p)'

\* C9: the existence check of create and its writes are not atomic.  A
\* caller past the check never fails with AlreadyExists, whatever another
\* caller has created since, and each of its writes replaces the file that
\* is there; when two callers have both returned from create on the same
\* identifier, the metadata and the index on disk are each the one or the
\* other caller's.
C9_CreateRace ==
    /\ [](\A p, q \in Procs :
              (p # q /\ Returned(p) /\ Returned(q) /\ loc[p].id = loc[q].id)
              =>
              /\ ReadFile(fs, loc[p].id, "meta")[1]
                     \in {model_dump(loc[p].meta[1]), model_dump(loc[q].meta[1])}
              /\ ReadFile(fs, loc[p].id, "index")[1]
                     \in {IndexContent(loc[p].name, loc[p].description),
                          IndexContent(loc[q].name, loc[q].description)})
    /\ [][\A p \in Procs : C9_Step(p)]_vars

\* Both callers have returned success from create on the same identifier
\* with different names; the metadata on disk is the first caller's and the
\* index the second's.
C9_Witness ==
    /\ Returned(1) /\ Returned(2)
    /\ loc[1].id = loc[2].id
    /\ loc[1].name # loc[2].name
    /\ ReadFile(fs, loc[1].id, "meta")[1].name = loc[1].name
    /\ ReadFile(fs, loc[1].id, "index")[1].heading = loc[2].name

====
